---- MODULE Spec2Model ----
(***************************************************************************)
(* Model of src/generate_report.py: the builders of the Power BI report    *)
(* document, json.dumps / json.loads as used by the script, and main.      *)
(*                                                                         *)
(* Representation.                                                         *)
(*  - A Python value is a tagged record: dict (ordered items), list, str,  *)
(*    int, float (integral value), bool, and "object" for a value the JSON *)
(*    encoder has no encoding for.                                         *)
(*  - A Python str is a sequence of lexical tokens (Text).  A str without  *)
(*    JSON syntax in it is one "ch" token holding its characters; a str    *)
(*    produced by json.dumps is the token sequence of the JSON text.       *)
(*    White space between tokens (indent=2, ", ", ": ") is not modelled.   *)
(*  - A JSON string literal is a "q" token: esc is the number of times its *)
(*    delimiting quotes have been backslash-escaped, body the raw text     *)
(*    between them.  Embedding a text in a string literal escapes every    *)
(*    quote in it once more.                                               *)
(*  - The Japanese literals of the source are written in ASCII             *)
(*    transliteration (ensure_ascii=False passes them through unchanged).  *)
(***************************************************************************)
EXTENDS Integers, Sequences, FiniteSets, TLC

VARIABLES pc, fault, report, json_str, validated, vpos, err,
          dir_exists, file, fs0, io_log, stdout,
          args, made

vars == <<pc, fault, report, json_str, validated, vpos, err,
          dir_exists, file, fs0, io_log, stdout, args, made>>

-----------------------------------------------------------------------------
(* Python values *)

None == [t |-> "none"]

D(items) == [t |-> "dict", items |-> items]

L(xs) == [t |-> "list", xs |-> xs]

I(n) == [t |-> "int", n |-> n]

F(n) == [t |-> "float", n |-> n]

B(b) == [t |-> "bool", b |-> b]

Ch(c) == [k |-> "ch", c |-> c]

P(c) == [k |-> "p", c |-> c]

Str(text) == [t |-> "str", s |-> text]

S(c) == Str(IF c = "" THEN << >> ELSE <<Ch(c)>>)

PyObject == [t |-> "object"]

IsPlain(v) == v.t = "str" /\ (v.s = << >> \/ (Len(v.s) = 1 /\ v.s[1].k = "ch"))

PlainOf(v) == IF v.s = << >> THEN "" ELSE v.s[1].c

HasKey(d, key) == d.t = "dict" /\ \E i \in 1..Len(d.items) : d.items[i][1] = key

Get(d, key) ==
    LET i == CHOOSE i \in 1..Len(d.items) : d.items[i][1] = key
    IN  d.items[i][2]

-----------------------------------------------------------------------------
(* json.dumps(obj, ensure_ascii=False) *)

RECURSIVE EscapeText(_)
EscapeText(text) ==
    [i \in 1..Len(text) |->
        IF text[i].k = "q"
        THEN [k |-> "q", esc |-> text[i].esc + 1, body |-> EscapeText(text[i].body)]
        ELSE text[i]]

(* A string literal written without escaping the quotes in it. *)
encode_basestring_raw(text) == [k |-> "q", esc |-> 0, body |-> text]

encode_basestring(text) == [k |-> "q", esc |-> 0, body |-> EscapeText(text)]

RECURSIVE Serializable(_)
Serializable(v) ==
    CASE v.t = "dict" -> \A i \in 1..Len(v.items) : Serializable(v.items[i][2])
      [] v.t = "list" -> \A i \in 1..Len(v.xs) : Serializable(v.xs[i])
      [] v.t = "object" -> FALSE
      [] OTHER -> TRUE

RECURSIVE Dumps(_), DumpsItems(_, _), DumpsElems(_, _)
Dumps(v) ==
    CASE v.t = "dict" -> <<P("{")>> \o DumpsItems(v.items, 1) \o <<P("}")>>
      [] v.t = "list" -> <<P("[")>> \o DumpsElems(v.xs, 1) \o <<P("]")>>
      [] v.t = "str" -> <<encode_basestring(v.s)>>
      [] v.t = "int" -> <<[k |-> "num", n |-> v.n, dot |-> FALSE]>>
      [] v.t = "float" -> <<[k |-> "num", n |-> v.n, dot |-> TRUE]>>
      [] v.t = "bool" -> <<[k |-> "kw", c |-> IF v.b THEN "true" ELSE "false"]>>
      [] v.t = "none" -> <<[k |-> "kw", c |-> "null"]>>

DumpsItems(items, i) ==
    IF i > Len(items) THEN << >>
    ELSE (IF i > 1 THEN <<P(",")>> ELSE << >>)
         \o <<encode_basestring(S(items[i][1]).s), P(":")>>
         \o Dumps(items[i][2])
         \o DumpsItems(items, i + 1)

DumpsElems(xs, i) ==
    IF i > Len(xs) THEN << >>
    ELSE (IF i > 1 THEN <<P(",")>> ELSE << >>)
         \o Dumps(xs[i])
         \o DumpsElems(xs, i + 1)

-----------------------------------------------------------------------------
(* json.loads(s): recursive descent over the tokens; ok = FALSE stands for  *)
(* json.JSONDecodeError.                                                    *)

ParseFail == [ok |-> FALSE, v |-> None, next |-> 0]

ParseOk(v, next) == [ok |-> TRUE, v |-> v, next |-> next]

IsP(text, i, c) == i <= Len(text) /\ text[i].k = "p" /\ text[i].c = c

RECURSIVE FullyEscaped(_)
FullyEscaped(text) ==
    \A i \in 1..Len(text) :
        text[i].k = "q" => (text[i].esc >= 1 /\ FullyEscaped(text[i].body))

RECURSIVE UnescapeText(_)
UnescapeText(text) ==
    [i \in 1..Len(text) |->
        IF text[i].k = "q"
        THEN [k |-> "q", esc |-> text[i].esc - 1, body |-> UnescapeText(text[i].body)]
        ELSE text[i]]

IsStringToken(text, i) ==
    i <= Len(text) /\ text[i].k = "q" /\ text[i].esc = 0 /\ FullyEscaped(text[i].body)

RECURSIVE ParseValue(_, _), ParseElems(_, _, _), ParseMembers(_, _, _)
ParseValue(text, i) ==
    IF i > Len(text) THEN ParseFail
    ELSE LET tk == text[i] IN
         CASE tk.k = "q" ->
                IF IsStringToken(text, i)
                THEN ParseOk(Str(UnescapeText(tk.body)), i + 1)
                ELSE ParseFail
           [] tk.k = "num" ->
                ParseOk(IF tk.dot THEN F(tk.n) ELSE I(tk.n), i + 1)
           [] tk.k = "kw" ->
                IF tk.c = "null" THEN ParseOk(None, i + 1)
                ELSE ParseOk(B(tk.c = "true"), i + 1)
           [] tk.k = "p" ->
                IF tk.c = "[" THEN
                    IF IsP(text, i + 1, "]") THEN ParseOk(L(<< >>), i + 2)
                    ELSE ParseElems(text, i + 1, << >>)
                ELSE IF tk.c = "{" THEN
                    IF IsP(text, i + 1, "}") THEN ParseOk(D(<< >>), i + 2)
                    ELSE ParseMembers(text, i + 1, << >>)
                ELSE ParseFail
           [] OTHER -> ParseFail

ParseElems(text, i, acc) ==
    LET r == ParseValue(text, i) IN
    IF ~r.ok THEN ParseFail
    ELSE IF IsP(text, r.next, ",") THEN ParseElems(text, r.next + 1, Append(acc, r.v))
    ELSE IF IsP(text, r.next, "]") THEN ParseOk(L(Append(acc, r.v)), r.next + 1)
    ELSE ParseFail

ParseMembers(text, i, acc) ==
    IF ~(IsStringToken(text, i) /\ IsPlain(Str(text[i].body)) /\ IsP(text, i + 1, ":"))
    THEN ParseFail
    ELSE LET key == PlainOf(Str(text[i].body))
             r == ParseValue(text, i + 2)
         IN  IF ~r.ok THEN ParseFail
             ELSE IF IsP(text, r.next, ",")
                  THEN ParseMembers(text, r.next + 1, Append(acc, <<key, r.v>>))
             ELSE IF IsP(text, r.next, "}")
                  THEN ParseOk(D(Append(acc, <<key, r.v>>)), r.next + 1)
             ELSE ParseFail

Loads(text) ==
    LET r == ParseValue(text, 1) IN
    IF r.ok /\ r.next = Len(text) + 1 THEN [ok |-> TRUE, v |-> r.v]
    ELSE [ok |-> FALSE, v |-> None]

-----------------------------------------------------------------------------
(* DESIGN CONSTANTS *)

PRIMARY_BLUE == "#0017C1"

BG_VISUAL == "#F8F8FB"

PAGE_BG == "#FFFFFF"

TEXT_COLOR == "#1A1A1A"

TEXT_SECONDARY == "#666666"

TEXT_MUTED == "#999999"

BORDER_RADIUS == 20

GRID_LINE_COLOR == "#D8D8DB"

COMPLETED_COLOR == "#0017C1"

INCOMPLETE_GRAY == "#D8D8DB"

LIGHT_BLUE == "#C5D7FB"

HEADER_BG == "#F1F1F4"

FONT_FAMILY == "Arial"

DONUT_INNER_RADIUS == 82

PAGE_WIDTH == 1920

PAGE_HEIGHT == 1080

CARD_BORDER_COLOR == "#E8E8EB"

-----------------------------------------------------------------------------
(* HELPER: literal expression builders *)

lit(val) == D(<< <<"expr", D(<< <<"Literal", D(<< <<"Value", val>> >>)>> >>)>> >>)

lit_str(s) == lit(S("'" \o s \o "'"))

lit_bool(b) == lit(S(IF b THEN "true" ELSE "false"))

lit_int(n) == lit(S(ToString(n) \o "L"))

lit_double(n) == lit(S(ToString(n) \o "D"))

solid_color(c) == D(<< <<"solid", D(<< <<"color", lit_str(c)>> >>)>> >>)

Props(items) == L(<<D(<< <<"properties", D(items)>> >>)>>)

ZeroPadding ==
    Props(<< <<"top", lit_double(0)>>, <<"bottom", lit_double(0)>>,
             <<"left", lit_double(0)>>, <<"right", lit_double(0)>> >>)

(* HELPER: standard vcObjects *)

std_vc_objects(show_bg, bg_color, show_border, border_color, border_radius) ==
    D(<< <<"title", Props(<< <<"show", lit_bool(FALSE)>> >>)>>,
         <<"background", Props(<< <<"show", lit_bool(show_bg)>>,
                                  <<"color", solid_color(bg_color)>>,
                                  <<"transparency", lit_double(0)>> >>)>>,
         <<"border", Props(<< <<"show", lit_bool(show_border)>>,
                              <<"color", solid_color(border_color)>>,
                              <<"radius", lit_int(border_radius)>> >>)>>,
         <<"padding", ZeroPadding>> >>)

std_vc_objects_default == std_vc_objects(FALSE, BG_VISUAL, FALSE, BG_VISUAL, BORDER_RADIUS)

hidden_vc_objects ==
    D(<< <<"title", Props(<< <<"show", lit_bool(FALSE)>> >>)>>,
         <<"background", Props(<< <<"show", lit_bool(FALSE)>> >>)>>,
         <<"border", Props(<< <<"show", lit_bool(FALSE)>> >>)>>,
         <<"visualHeader", Props(<< <<"show", lit_bool(FALSE)>> >>)>> >>)

(* HELPER: make a visual container dict *)

(* The filters blob written as null, the filters_list argument ignored. *)
make_visual_container_null_filters(config_dict, filters_list, x, y, w, h, z) ==
    D(<< <<"config", Str(Dumps(config_dict))>>,
         <<"filters", Str(Dumps(None))>>,
         <<"height", F(h)>>,
         <<"width", F(w)>>,
         <<"x", F(x)>>,
         <<"y", F(y)>>,
         <<"z", F(z)>> >>)

(* Width and height written the wrong way round. *)
make_visual_container_swapped_size(config_dict, filters_list, x, y, w, h, z) ==
    D(<< <<"config", Str(Dumps(config_dict))>>,
         <<"filters", Str(Dumps(filters_list))>>,
         <<"height", F(w)>>,
         <<"width", F(h)>>,
         <<"x", F(x)>>,
         <<"y", F(y)>>,
         <<"z", F(z)>> >>)

make_visual_container(config_dict, filters_list, x, y, w, h, z) ==
    D(<< <<"config", Str(Dumps(config_dict))>>,
         <<"filters", Str(Dumps(filters_list))>>,
         <<"height", F(h)>>,
         <<"width", F(w)>>,
         <<"x", F(x)>>,
         <<"y", F(y)>>,
         <<"z", F(z)>> >>)

(* The arguments taken in the order x, y, w, h, z. *)
position_z_last(x, y, z, w, h, tab) ==
    D(<< <<"x", I(x)>>, <<"y", I(y)>>, <<"z", I(h)>>,
         <<"width", I(z)>>, <<"height", I(w)>>, <<"tabOrder", I(tab)>> >>)

position(x, y, z, w, h, tab) ==
    D(<< <<"x", I(x)>>, <<"y", I(y)>>, <<"z", I(z)>>,
         <<"width", I(w)>>, <<"height", I(h)>>, <<"tabOrder", I(tab)>> >>)

Layouts(x, y, z, w, h) ==
    L(<<D(<< <<"id", I(0)>>, <<"position", position(x, y, z, w, h, 0)>> >>)>>)

(* HELPER: textbox *)

textbox_config(name, x, y, w, h, z, paragraphs_json, vc_objects) ==
    D(<< <<"name", S(name)>>,
         <<"layouts", Layouts(x, y, z, w, h)>>,
         <<"singleVisual", D(<<
             <<"visualType", S("textbox")>>,
             <<"objects", D(<<
                 <<"general", Props(<< <<"paragraphs", lit(Str(Dumps(paragraphs_json)))>> >>)>> >>)>>,
             <<"vcObjects", IF vc_objects = None THEN std_vc_objects_default ELSE vc_objects>> >>)>> >>)

(* Every textbox given one and the same name. *)
make_textbox_fixed_name(name, x, y, w, h, z, paragraphs_json, vc_objects) ==
    make_visual_container(textbox_config("vc_textbox", x, y, w, h, z, paragraphs_json, vc_objects),
                          L(<< >>), x, y, w, h, z)

make_textbox(name, x, y, w, h, z, paragraphs_json, vc_objects) ==
    make_visual_container(textbox_config(name, x, y, w, h, z, paragraphs_json, vc_objects),
                          L(<< >>), x, y, w, h, z)

(* HELPER: card visual *)

SourceRefSource(alias) == D(<< <<"SourceRef", D(<< <<"Source", S(alias)>> >>)>> >>)

(* A Select entry named by its property alone, without the source alias. *)
SelectEntryBareName(kind, alias, prop, name) ==
    D(<< <<kind, D(<< <<"Expression", SourceRefSource(alias)>>,
                      <<"Property", S(prop)>> >>)>>,
         <<"Name", S(prop)>> >>)

SelectEntry(kind, alias, prop, name) ==
    D(<< <<kind, D(<< <<"Expression", SourceRefSource(alias)>>,
                      <<"Property", S(prop)>> >>)>>,
         <<"Name", S(name)>> >>)

(* A From entry tagged with Type 1. *)
FromEntryType1(alias, entity) ==
    D(<< <<"Name", S(alias)>>, <<"Entity", S(entity)>>, <<"Type", I(1)>> >>)

FromEntry(alias, entity) ==
    D(<< <<"Name", S(alias)>>, <<"Entity", S(entity)>>, <<"Type", I(0)>> >>)

QueryRef(ref) == D(<< <<"queryRef", S(ref)>> >>)

card_config(name, x, y, w, h, z, measure_name, font_size, vc_objects) ==
    D(<< <<"name", S(name)>>,
         <<"layouts", Layouts(x, y, z, w, h)>>,
         <<"singleVisual", D(<<
             <<"visualType", S("card")>>,
             <<"projections", D(<< <<"Values", L(<<QueryRef("o." \o measure_name)>>)>> >>)>>,
             <<"prototypeQuery", D(<<
                 <<"Version", I(2)>>,
                 <<"From", L(<<FromEntry("o", "OnlineKaJokyo")>>)>>,
                 <<"Select", L(<<SelectEntry("Measure", "o", measure_name,
                                             "o." \o measure_name)>>)>> >>)>>,
             <<"objects", D(<<
                 <<"labels", Props(<< <<"fontSize", lit_double(font_size)>>,
                                      <<"color", solid_color(TEXT_COLOR)>>,
                                      <<"fontFamily", lit_str(FONT_FAMILY)>> >>)>>,
                 <<"categoryLabels", Props(<< <<"show", lit_bool(FALSE)>> >>)>> >>)>>,
             <<"vcObjects", IF vc_objects = None THEN std_vc_objects_default ELSE vc_objects>> >>)>> >>)

(* The card bound to one fixed measure, whatever measure_name is. *)
make_card_fixed_measure(name, x, y, w, h, z, measure_name, font_size, vc_objects) ==
    make_visual_container(card_config(name, x, y, w, h, z, "JichitaiSu", font_size, vc_objects),
                          L(<< >>), x, y, w, h, z)

make_card(name, x, y, w, h, z, measure_name, font_size, vc_objects) ==
    make_visual_container(card_config(name, x, y, w, h, z, measure_name, font_size, vc_objects),
                          L(<< >>), x, y, w, h, z)

(* HELPER: shape visual (rounded rectangle) *)

shape_config(name, x, y, w, h, z, fill_color, line_color, weight, round_edge) ==
    D(<< <<"name", S(name)>>,
         <<"layouts", Layouts(x, y, z, w, h)>>,
         <<"singleVisual", D(<<
             <<"visualType", S("shape")>>,
             <<"objects", D(<<
                 <<"line", Props(<< <<"lineColor", solid_color(line_color)>>,
                                    <<"weight", lit_double(weight)>>,
                                    <<"roundEdge", lit_int(round_edge)>> >>)>>,
                 <<"fill", Props(<< <<"fillColor", solid_color(fill_color)>>,
                                    <<"transparency", lit_double(0)>> >>)>> >>)>>,
             <<"vcObjects", hidden_vc_objects>> >>)>> >>)

make_shape(name, x, y, w, h, z, fill_color, line_color, weight, round_edge) ==
    make_visual_container(shape_config(name, x, y, w, h, z, fill_color, line_color, weight, round_edge),
                          L(<< >>), x, y, w, h, z)

(* HELPER: donut chart data-point selectors *)

(* The category value compared with as it is, without the quotes of a literal. *)
donut_data_point_selector_unquoted(entity, prop, value, color) ==
    D(<< <<"properties", D(<< <<"fill", solid_color(color)>> >>)>>,
         <<"selector", D(<<
             <<"data", L(<<D(<<
                 <<"scopeId", D(<<
                     <<"Comparison", D(<<
                         <<"ComparisonKind", I(0)>>,
                         <<"Left", D(<<
                             <<"Column", D(<<
                                 <<"Expression", D(<< <<"SourceRef", D(<< <<"Entity", S(entity)>> >>)>> >>)>>,
                                 <<"Property", S(prop)>> >>)>> >>)>>,
                         <<"Right", D(<< <<"Literal", D(<<
                             <<"Value", S(value)>> >>)>> >>)>> >>)>> >>)>> >>)>>)>> >>)>> >>)

donut_data_point_selector(entity, prop, value, color) ==
    D(<< <<"properties", D(<< <<"fill", solid_color(color)>> >>)>>,
         <<"selector", D(<<
             <<"data", L(<<D(<<
                 <<"scopeId", D(<<
                     <<"Comparison", D(<<
                         <<"ComparisonKind", I(0)>>,
                         <<"Left", D(<<
                             <<"Column", D(<<
                                 <<"Expression", D(<< <<"SourceRef", D(<< <<"Entity", S(entity)>> >>)>> >>)>>,
                                 <<"Property", S(prop)>> >>)>> >>)>>,
                         <<"Right", D(<< <<"Literal", D(<<
                             <<"Value", S("'" \o value \o "'")>> >>)>> >>)>> >>)>> >>)>> >>)>>)>> >>)>> >>)

(* HELPER: donut chart *)

donut_config(name, x, y, w, h, z, label_font_size, vc_objects) ==
    D(<< <<"name", S(name)>>,
         <<"layouts", Layouts(x, y, z, w, h)>>,
         <<"singleVisual", D(<<
             <<"visualType", S("donutChart")>>,
             <<"projections", D(<<
                 <<"Category", L(<<QueryRef("k.Sutetasu")>>)>>,
                 <<"Y", L(<<QueryRef("k.KanryoJokyoChi")>>)>> >>)>>,
             <<"prototypeQuery", D(<<
                 <<"Version", I(2)>>,
                 <<"From", L(<<FromEntry("k", "KanryoJokyo")>>)>>,
                 <<"Select", L(<<SelectEntry("Column", "k", "Sutetasu", "k.Sutetasu"),
                                 SelectEntry("Measure", "k", "KanryoJokyoChi", "k.KanryoJokyoChi")>>)>>,
                 <<"OrderBy", L(<<D(<<
                     <<"Direction", I(1)>>,
                     <<"Expression", D(<<
                         <<"Column", D(<<
                             <<"Expression", SourceRefSource("k")>>,
                             <<"Property", S("Junjo")>> >>)>> >>)>> >>)>>)>> >>)>>,
             <<"objects", D(<<
                 <<"legend", Props(<< <<"show", lit_bool(FALSE)>> >>)>>,
                 <<"dataPoint", L(<<
                     donut_data_point_selector("KanryoJokyo", "Sutetasu", "Kanryo", COMPLETED_COLOR),
                     donut_data_point_selector("KanryoJokyo", "Sutetasu", "Mikanryo", INCOMPLETE_GRAY)>>)>>,
                 <<"labels", Props(<< <<"show", lit_bool(TRUE)>>,
                                      <<"labelStyle", lit_str("Percent of total")>>,
                                      <<"fontSize", lit_double(label_font_size)>>,
                                      <<"color", solid_color(TEXT_COLOR)>>,
                                      <<"fontFamily", lit_str(FONT_FAMILY)>> >>)>>,
                 <<"slices", Props(<< <<"innerRadiusRatio", lit_int(DONUT_INNER_RADIUS)>> >>)>> >>)>>,
             <<"vcObjects", IF vc_objects = None THEN std_vc_objects_default ELSE vc_objects>> >>)>> >>)

make_donut(name, x, y, w, h, z, label_font_size, vc_objects) ==
    make_visual_container(donut_config(name, x, y, w, h, z, label_font_size, vc_objects),
                          L(<< >>), x, y, w, h, z)

(* HELPER: slicer visual *)

slicer_vc(title_text) ==
    D(<< <<"title", Props(<< <<"show", lit_bool(TRUE)>>,
                             <<"text", lit_str(title_text)>>,
                             <<"fontColor", solid_color(TEXT_COLOR)>>,
                             <<"fontSize", lit_double(12)>>,
                             <<"fontFamily", lit_str(FONT_FAMILY)>> >>)>>,
         <<"background", Props(<< <<"show", lit_bool(FALSE)>> >>)>>,
         <<"border", Props(<< <<"show", lit_bool(TRUE)>>,
                              <<"color", solid_color(GRID_LINE_COLOR)>>,
                              <<"radius", lit_int(10)>> >>)>>,
         <<"padding", ZeroPadding>> >>)

slicer_config(name, x, y, w, h, z, column_name, title_text) ==
    D(<< <<"name", S(name)>>,
         <<"layouts", Layouts(x, y, z, w, h)>>,
         <<"singleVisual", D(<<
             <<"visualType", S("slicer")>>,
             <<"projections", D(<< <<"Values", L(<<QueryRef("o." \o column_name)>>)>> >>)>>,
             <<"prototypeQuery", D(<<
                 <<"Version", I(2)>>,
                 <<"From", L(<<FromEntry("o", "OnlineKaJokyo")>>)>>,
                 <<"Select", L(<<SelectEntry("Column", "o", column_name,
                                             "o." \o column_name)>>)>> >>)>>,
             <<"objects", D(<<
                 <<"general", Props(<< <<"responsive", lit_bool(TRUE)>> >>)>>,
                 <<"data", Props(<< <<"mode", lit_str("Dropdown")>> >>)>>,
                 <<"selection", Props(<< <<"singleSelect", lit_bool(FALSE)>> >>)>>,
                 <<"header", Props(<< <<"show", lit_bool(FALSE)>> >>)>>,
                 <<"items", Props(<< <<"textSize", lit_double(14)>>,
                                     <<"fontFamily", lit_str(FONT_FAMILY)>>,
                                     <<"padding", lit_int(6)>> >>)>> >>)>>,
             <<"vcObjects", slicer_vc(title_text)>> >>)>> >>)

make_slicer(name, x, y, w, h, z, column_name, title_text) ==
    make_visual_container(slicer_config(name, x, y, w, h, z, column_name, title_text),
                          L(<< >>), x, y, w, h, z)

(* MATRIX STYLING (shared between Page 1 and Page 2) *)

HeaderProps ==
    Props(<< <<"fontColor", solid_color(TEXT_COLOR)>>,
             <<"backColor", solid_color(HEADER_BG)>>,
             <<"bold", lit_bool(TRUE)>>,
             <<"fontSize", lit_double(14)>>,
             <<"fontFamily", lit_str(FONT_FAMILY)>>,
             <<"outline", lit_str("Frame")>> >>)

matrix_objects_base ==
    D(<< <<"grid", Props(<< <<"gridVertical", lit_bool(TRUE)>>,
                            <<"gridVerticalColor", solid_color(GRID_LINE_COLOR)>>,
                            <<"gridVerticalWeight", lit_int(1)>>,
                            <<"gridHorizontal", lit_bool(TRUE)>>,
                            <<"gridHorizontalColor", solid_color(GRID_LINE_COLOR)>>,
                            <<"gridHorizontalWeight", lit_int(1)>>,
                            <<"outlineColor", solid_color(GRID_LINE_COLOR)>>,
                            <<"outlineWeight", lit_int(1)>>,
                            <<"textSize", lit_double(14)>>,
                            <<"rowPadding", lit_int(4)>> >>)>>,
         <<"columnHeaders", HeaderProps>>,
         <<"rowHeaders", HeaderProps>>,
         <<"values", Props(<< <<"fontColorPrimary", solid_color(TEXT_COLOR)>>,
                              <<"backColorPrimary", solid_color(PAGE_BG)>>,
                              <<"fontColorSecondary", solid_color(TEXT_COLOR)>>,
                              <<"backColorSecondary", solid_color(BG_VISUAL)>>,
                              <<"fontSize", lit_double(16)>>,
                              <<"fontFamily", lit_str(FONT_FAMILY)>>,
                              <<"outline", lit_str("Frame")>>,
                              <<"bandedRowHeaders", lit_bool(TRUE)>> >>)>>,
         <<"subTotals", Props(<< <<"rowSubtotals", lit_bool(FALSE)>>,
                                 <<"columnSubtotals", lit_bool(FALSE)>> >>)>> >>)

matrix_vc_objects ==
    D(<< <<"title", Props(<< <<"show", lit_bool(FALSE)>> >>)>>,
         <<"background", Props(<< <<"show", lit_bool(TRUE)>>,
                                  <<"color", solid_color(PAGE_BG)>>,
                                  <<"transparency", lit_double(0)>> >>)>>,
         <<"border", Props(<< <<"show", lit_bool(TRUE)>>,
                              <<"color", solid_color(CARD_BORDER_COLOR)>>,
                              <<"radius", lit_int(BORDER_RADIUS)>> >>)>>,
         <<"padding", ZeroPadding>> >>)

page_config ==
    D(<< <<"objects", D(<<
        <<"background", Props(<< <<"color", solid_color(PAGE_BG)>>,
                                 <<"transparency", lit_double(0)>> >>)>> >>)>> >>)

-----------------------------------------------------------------------------
(* Paragraph literals of the page builders *)

Style(font_size, color) ==
    D(<< <<"fontSize", S(font_size)>>, <<"color", S(color)>>, <<"fontFamily", S(FONT_FAMILY)>> >>)

StyleBold(font_size, color) ==
    D(<< <<"fontSize", S(font_size)>>, <<"color", S(color)>>,
         <<"fontWeight", S("bold")>>, <<"fontFamily", S(FONT_FAMILY)>> >>)

Run(value, style) == D(<< <<"value", S(value)>>, <<"textStyle", style>> >>)

Para(runs) == D(<< <<"textRuns", L(runs)>> >>)

ParaRight(runs) ==
    D(<< <<"textRuns", L(runs)>>, <<"horizontalTextAlignment", S("right")>> >>)

Paragraphs(paras) == D(<< <<"paragraphs", L(paras)>> >>)

(* One visuals.append(...) statement of a page builder: the builder called  *)
(* and its arguments (a, b: the builder's own arguments after z).           *)

Call(fn, name, x, y, w, h, z, a, b) ==
    [fn |-> fn, name |-> name, x |-> x, y |-> y, w |-> w, h |-> h, z |-> z, a |-> a, b |-> b]

ConfigOfCall(c) ==
    CASE c.fn = "make_textbox" -> textbox_config(c.name, c.x, c.y, c.w, c.h, c.z, c.a, None)
      [] c.fn = "make_card" -> card_config(c.name, c.x, c.y, c.w, c.h, c.z, c.a, c.b, None)
      [] c.fn = "make_shape" ->
            shape_config(c.name, c.x, c.y, c.w, c.h, c.z, PAGE_BG, CARD_BORDER_COLOR, 1, BORDER_RADIUS)
      [] c.fn = "make_donut" -> donut_config(c.name, c.x, c.y, c.w, c.h, c.z, c.b, None)
      [] c.fn = "make_slicer" -> slicer_config(c.name, c.x, c.y, c.w, c.h, c.z, c.a, c.b)
      [] c.fn = "make_visual_container" -> c.a

Eval(c) ==
    CASE c.fn = "make_textbox" -> make_textbox(c.name, c.x, c.y, c.w, c.h, c.z, c.a, None)
      [] c.fn = "make_card" -> make_card(c.name, c.x, c.y, c.w, c.h, c.z, c.a, c.b, None)
      [] c.fn = "make_shape" ->
            make_shape(c.name, c.x, c.y, c.w, c.h, c.z, PAGE_BG, CARD_BORDER_COLOR, 1, BORDER_RADIUS)
      [] c.fn = "make_donut" -> make_donut(c.name, c.x, c.y, c.w, c.h, c.z, c.b, None)
      [] c.fn = "make_slicer" -> make_slicer(c.name, c.x, c.y, c.w, c.h, c.z, c.a, c.b)
      [] c.fn = "make_visual_container" ->
            make_visual_container(c.a, L(<< >>), c.x, c.y, c.w, c.h, c.z)

-----------------------------------------------------------------------------
(* PAGE 1: TodofukenIchiran *)

p1_title_paragraphs ==
    Paragraphs(<<Para(<<Run("Kosodate/kaigo kankei no 26 tetsuzuki no online-ka torikumi jokyo",
                            StyleBold("22px", TEXT_COLOR))>>)>>)

p1_org_paragraphs ==
    Paragraphs(<<ParaRight(<<Run("Dejitarucho", Style("14px", TEXT_COLOR))>>)>>)

p1_subtitle_paragraphs ==
    Paragraphs(<<Para(<<Run("Kosodate/kaigo kankei no zen 26 tetsuzuki wo",
                            StyleBold("16px", TEXT_COLOR))>>),
                 Para(<<Run("online tetsuzuki dekiru jichitai no wariai",
                            StyleBold("16px", TEXT_COLOR))>>)>>)

p1_kpi_label_paragraphs ==
    Paragraphs(<<Para(<<Run("online-ka ga kanryo shita jichitai su / zen jichitai su",
                            Style("12px", TEXT_SECONDARY))>>)>>)

p1_slash_paragraphs ==
    Paragraphs(<<Para(<<Run("(fullwidth slash)", Style("24px", TEXT_COLOR))>>)>>)

p1_legend_paragraphs ==
    Paragraphs(<<
        Para(<<Run("Hanrei", StyleBold("13px", TEXT_COLOR))>>),
        Para(<<Run("", D(<< <<"fontSize", S("8px")>> >>))>>),
        Para(<<Run("(bullet)", Style("13px", COMPLETED_COLOR)),
               Run(" 100% (zen 26 tetsuzuki online-ka kanryo)", Style("13px", TEXT_SECONDARY))>>),
        Para(<<Run("(bullet)", Style("13px", LIGHT_BLUE)),
               Run(" 80% ijo 100% miman", Style("13px", TEXT_SECONDARY))>>),
        Para(<<Run("(bullet)", Style("13px", INCOMPLETE_GRAY)),
               Run(" 80% miman", Style("13px", TEXT_SECONDARY))>>)>>)

p1_date_paragraphs ==
    Paragraphs(<<ParaRight(<<Run("Reiwa 6 nendo matsu jiten", Style("11px", TEXT_MUTED))>>)>>)

matrix_config ==
    D(<< <<"name", S("vc_p1_matrix")>>,
         <<"layouts", L(<<D(<< <<"id", I(0)>>,
                               <<"position", position(480, 80, 0, 1420, 880, 0)>> >>)>>)>>,
         <<"singleVisual", D(<<
             <<"visualType", S("pivotTable")>>,
             <<"projections", D(<<
                 <<"Rows", L(<<QueryRef("o.ChiikiBurokku"), QueryRef("o.Todofuken")>>)>>,
                 <<"Values", L(<<QueryRef("o.KosodateKaigo26TetsuzukiKanryoRitsu"),
                                 QueryRef("o.KosodateKaigo26TetsuzukiKanryoJichitaiSu"),
                                 QueryRef("o.JichitaiSu")>>)>> >>)>>,
             <<"prototypeQuery", D(<<
                 <<"Version", I(2)>>,
                 <<"From", L(<<FromEntry("o", "OnlineKaJokyo")>>)>>,
                 <<"Select", L(<<
                     SelectEntry("Column", "o", "ChiikiBurokku", "o.ChiikiBurokku"),
                     SelectEntry("Column", "o", "Todofuken", "o.Todofuken"),
                     SelectEntry("Measure", "o", "KosodateKaigo26TetsuzukiKanryoRitsu",
                                 "o.KosodateKaigo26TetsuzukiKanryoRitsu"),
                     SelectEntry("Measure", "o", "KosodateKaigo26TetsuzukiKanryoJichitaiSu",
                                 "o.KosodateKaigo26TetsuzukiKanryoJichitaiSu"),
                     SelectEntry("Measure", "o", "JichitaiSu", "o.JichitaiSu")>>)>> >>)>>,
             <<"objects", matrix_objects_base>>,
             <<"vcObjects", matrix_vc_objects>> >>)>> >>)

page1_calls ==
    << Call("make_textbox", "vc_p1_title", 40, 24, 900, 44, 0, p1_title_paragraphs, None),
       Call("make_textbox", "vc_p1_org", 1740, 24, 160, 36, 0, p1_org_paragraphs, None),
       Call("make_shape", "vc_p1_left_bg", 20, 80, 440, 780, 0, None, None),
       Call("make_textbox", "vc_p1_subtitle", 50, 100, 400, 56, 1, p1_subtitle_paragraphs, None),
       Call("make_donut", "vc_p1_donut", 100, 180, 280, 280, 1, None, 36),
       Call("make_textbox", "vc_p1_kpi_label", 50, 480, 380, 24, 1, p1_kpi_label_paragraphs, None),
       Call("make_card", "vc_p1_kpi_completed", 80, 510, 130, 55, 1,
            "KosodateKaigo26TetsuzukiKanryoJichitaiSu", 28),
       Call("make_textbox", "vc_p1_slash", 210, 516, 30, 42, 1, p1_slash_paragraphs, None),
       Call("make_card", "vc_p1_kpi_total", 240, 510, 130, 55, 1, "JichitaiSu", 28),
       Call("make_textbox", "vc_p1_legend", 50, 590, 380, 120, 1, p1_legend_paragraphs, None),
       Call("make_visual_container", "", 480, 80, 1420, 880, 0, matrix_config, None),
       Call("make_textbox", "vc_p1_date", 1620, 980, 280, 24, 1, p1_date_paragraphs, None) >>

Visuals(calls) == [i \in 1..Len(calls) |-> Eval(calls[i])]

build_page1 ==
    D(<< <<"config", Str(Dumps(page_config))>>,
         <<"displayName", S("TodofukenIchiran")>>,
         <<"displayOption", I(1)>>,
         <<"filters", Str(<<P("["), P("]")>>)>>,
         <<"height", F(PAGE_HEIGHT)>>,
         <<"name", S("ReportSection_page1")>>,
         <<"ordinal", I(0)>>,
         <<"visualContainers", L(Visuals(page1_calls))>>,
         <<"width", F(PAGE_WIDTH)>> >>)

-----------------------------------------------------------------------------
(* PAGE 2: ShikuchosonShosai *)

ColumnExpr(refkey, ref, prop) ==
    D(<< <<"Column", D(<< <<"Expression", D(<< <<"SourceRef", D(<< <<refkey, S(ref)>> >>)>> >>)>>,
                          <<"Property", S(prop)>> >>)>> >>)

(* The second literal value left out of the In condition. *)
page_filters_one_value ==
    L(<<D(<<
        <<"name", S("filter_subcat")>>,
        <<"expression", ColumnExpr("Entity", "OnlineKaJokyo", "SabuKategori")>>,
        <<"type", S("Categorical")>>,
        <<"filter", D(<<
            <<"Version", I(2)>>,
            <<"From", L(<<FromEntry("o", "OnlineKaJokyo")>>)>>,
            <<"Where", L(<<D(<<
                <<"Condition", D(<<
                    <<"In", D(<<
                        <<"Expressions", L(<<ColumnExpr("Source", "o", "SabuKategori")>>)>>,
                        <<"Values", L(<<
                            L(<<D(<< <<"Literal", D(<< <<"Value", S("'A.KosodateKankei'")>> >>)>> >>)>>)
                        >>)>> >>)>> >>)>> >>)>>)>> >>)>>,
        <<"isHiddenInViewMode", B(TRUE)>> >>)>>)

page_filters ==
    L(<<D(<<
        <<"name", S("filter_subcat")>>,
        <<"expression", ColumnExpr("Entity", "OnlineKaJokyo", "SabuKategori")>>,
        <<"type", S("Categorical")>>,
        <<"filter", D(<<
            <<"Version", I(2)>>,
            <<"From", L(<<FromEntry("o", "OnlineKaJokyo")>>)>>,
            <<"Where", L(<<D(<<
                <<"Condition", D(<<
                    <<"In", D(<<
                        <<"Expressions", L(<<ColumnExpr("Source", "o", "SabuKategori")>>)>>,
                        <<"Values", L(<<
                            L(<<D(<< <<"Literal", D(<< <<"Value", S("'A.KosodateKankei'")>> >>)>> >>)>>),
                            L(<<D(<< <<"Literal", D(<< <<"Value", S("'I.KaigoKankei'")>> >>)>> >>)>>)
                        >>)>> >>)>> >>)>> >>)>>)>> >>)>>,
        <<"isHiddenInViewMode", B(TRUE)>> >>)>>)

back_config ==
    D(<< <<"name", S("vc_p2_back")>>,
         <<"layouts", L(<<D(<< <<"id", I(0)>>,
                               <<"position", position(20, 20, 0, 240, 30, 0)>> >>)>>)>>,
         <<"singleVisual", D(<<
             <<"visualType", S("actionButton")>>,
             <<"objects", D(<<
                 <<"icon", Props(<< <<"show", lit_bool(FALSE)>> >>)>>,
                 <<"outline", Props(<< <<"show", lit_bool(FALSE)>> >>)>>,
                 <<"text", Props(<< <<"show", lit_bool(TRUE)>>,
                                    <<"text", lit_str("< TodofukenIchiran ni modoru")>>,
                                    <<"fontColor", solid_color(PRIMARY_BLUE)>>,
                                    <<"fontSize", lit_double(14)>>,
                                    <<"fontFamily", lit_str(FONT_FAMILY)>>,
                                    <<"alignment", lit_str("Left")>> >>)>>,
                 <<"action", Props(<< <<"type", lit_str("PageNavigation")>>,
                                      <<"destination", lit_str("ReportSection_page1")>> >>)>> >>)>>,
             <<"vcObjects", hidden_vc_objects>> >>)>> >>)

p2_org_paragraphs ==
    Paragraphs(<<ParaRight(<<Run("Dejitarucho", Style("14px", TEXT_COLOR))>>)>>)

p2_subtitle_paragraphs ==
    Paragraphs(<<Para(<<Run("Kosodate/kaigo kankei no zen 26 tetsuzuki wo",
                            StyleBold("14px", TEXT_COLOR))>>),
                 Para(<<Run("online tetsuzuki dekiru jichitai no wariai",
                            StyleBold("14px", TEXT_COLOR))>>)>>)

p2_kpi_label_paragraphs ==
    Paragraphs(<<Para(<<Run("online-ka ga kanryo shita jichitai su / zen jichitai su",
                            Style("11px", TEXT_SECONDARY))>>)>>)

p2_slash_paragraphs ==
    Paragraphs(<<Para(<<Run("(fullwidth slash)", Style("20px", TEXT_COLOR))>>)>>)

p2_legend_paragraphs ==
    Paragraphs(<<Para(<<
        Run("(bullet)", Style("12px", COMPLETED_COLOR)),
        Run(" online tetsuzuki dekiru ", Style("12px", TEXT_SECONDARY)),
        Run("(bullet)", Style("12px", INCOMPLETE_GRAY)),
        Run(" online tetsuzuki dekinai ", Style("12px", TEXT_SECONDARY)),
        Run("- gaito suru tetsuzuki ga nai", Style("12px", TEXT_SECONDARY))>>)>>)

p2_date_paragraphs ==
    Paragraphs(<<ParaRight(<<Run("Reiwa 6 nendo matsu jiten", Style("11px", TEXT_MUTED))>>)>>)

matrix2_config ==
    D(<< <<"name", S("vc_p2_matrix")>>,
         <<"layouts", L(<<D(<< <<"id", I(0)>>,
                               <<"position", position(360, 20, 0, 1540, 1000, 0)>> >>)>>)>>,
         <<"singleVisual", D(<<
             <<"visualType", S("pivotTable")>>,
             <<"projections", D(<<
                 <<"Rows", L(<<QueryRef("o.SabuKategori"), QueryRef("o.Tetsuzukimei")>>)>>,
                 <<"Columns", L(<<QueryRef("o.Dantaimei")>>)>>,
                 <<"Values", L(<<QueryRef("o.SutetasuHyoji")>>)>> >>)>>,
             <<"prototypeQuery", D(<<
                 <<"Version", I(2)>>,
                 <<"From", L(<<FromEntry("o", "OnlineKaJokyo")>>)>>,
                 <<"Select", L(<<
                     SelectEntry("Column", "o", "SabuKategori", "o.SabuKategori"),
                     SelectEntry("Column", "o", "Tetsuzukimei", "o.Tetsuzukimei"),
                     SelectEntry("Column", "o", "Dantaimei", "o.Dantaimei"),
                     SelectEntry("Measure", "o", "SutetasuHyoji", "o.SutetasuHyoji")>>)>> >>)>>,
             <<"objects", matrix_objects_base>>,
             <<"vcObjects", matrix_vc_objects>> >>)>> >>)

page2_calls ==
    << Call("make_visual_container", "", 20, 20, 240, 30, 0, back_config, None),
       Call("make_textbox", "vc_p2_org", 1740, 24, 160, 36, 0, p2_org_paragraphs, None),
       Call("make_shape", "vc_p2_left_bg", 20, 60, 320, 620, 0, None, None),
       Call("make_slicer", "vc_p2_slicer_pref", 35, 75, 290, 55, 1, "Todofuken",
            "Todofuken de shiborikomu"),
       Call("make_slicer", "vc_p2_slicer_muni", 35, 145, 290, 55, 1, "Dantaimei",
            "Dantaimei de shiborikomu"),
       Call("make_textbox", "vc_p2_subtitle", 35, 215, 290, 50, 1, p2_subtitle_paragraphs, None),
       Call("make_donut", "vc_p2_donut", 70, 280, 220, 220, 1, None, 28),
       Call("make_textbox", "vc_p2_kpi_label", 35, 520, 290, 22, 1, p2_kpi_label_paragraphs, None),
       Call("make_card", "vc_p2_kpi_completed", 60, 548, 110, 50, 1,
            "KosodateKaigo26TetsuzukiKanryoJichitaiSu", 24),
       Call("make_textbox", "vc_p2_slash", 170, 554, 24, 38, 1, p2_slash_paragraphs, None),
       Call("make_card", "vc_p2_kpi_total", 194, 548, 110, 50, 1, "JichitaiSu", 24),
       Call("make_visual_container", "", 360, 20, 1540, 1000, 0, matrix2_config, None),
       Call("make_textbox", "vc_p2_legend", 360, 1030, 700, 25, 0, p2_legend_paragraphs, None),
       Call("make_textbox", "vc_p2_date", 1620, 1045, 280, 25, 0, p2_date_paragraphs, None) >>

build_page2 ==
    D(<< <<"config", Str(Dumps(page_config))>>,
         <<"displayName", S("ShikuchosonShosai")>>,
         <<"displayOption", I(1)>>,
         <<"filters", Str(Dumps(page_filters))>>,
         <<"height", F(PAGE_HEIGHT)>>,
         <<"name", S("ReportSection_page2")>>,
         <<"ordinal", I(1)>>,
         <<"visualContainers", L(Visuals(page2_calls))>>,
         <<"width", F(PAGE_WIDTH)>> >>)

-----------------------------------------------------------------------------
(* REPORT-LEVEL CONFIG *)

report_config ==
    D(<< <<"version", S("5.44")>>,
         <<"themeCollection", D(<<
             <<"baseTheme", D(<< <<"name", S("CY23SU08")>>, <<"version", S("5.46")>>,
                                 <<"type", I(2)>> >>)>>,
             <<"customTheme", D(<< <<"name", S("Digital_Agency_Dashboard_Desig3362615343750506.json")>>, <<"version", S("5.46")>>,
                                   <<"type", I(1)>> >>)>> >>)>>,
         <<"activeSectionIndex", I(0)>>,
         <<"defaultDrillFilterOtherVisuals", B(TRUE)>>,
         <<"linguisticSchemaSyncVersion", I(2)>>,
         <<"settings", D(<<
             <<"useNewFilterPaneExperience", B(TRUE)>>,
             <<"allowChangeFilterTypes", B(TRUE)>>,
             <<"useStylableVisualContainerHeader", B(TRUE)>>,
             <<"queryLimitOption", I(6)>>,
             <<"useEnhancedTooltips", B(TRUE)>>,
             <<"exportDataMode", I(1)>>,
             <<"useDefaultAggregateDisplayName", B(TRUE)>> >>)>> >>)

(* A resource package bound without its item. *)
ResourcePackageNoItems(name, type, item) ==
    D(<< <<"resourcePackage", D(<<
        <<"disabled", B(FALSE)>>,
        <<"items", L(<< >>)>>,
        <<"name", S(name)>>,
        <<"type", I(type)>> >>)>> >>)

ResourcePackage(name, type, item) ==
    D(<< <<"resourcePackage", D(<<
        <<"disabled", B(FALSE)>>,
        <<"items", L(<<item>>)>>,
        <<"name", S(name)>>,
        <<"type", I(type)>> >>)>> >>)

resource_packages ==
    L(<< ResourcePackage("SharedResources", 2,
            D(<< <<"name", S("CY23SU08")>>, <<"path", S("BaseThemes/CY23SU08.json")>>,
                 <<"type", I(202)>> >>)),
         ResourcePackage("RegisteredResources", 1,
            D(<< <<"name", S("Digital_Agency_Dashboard_Desig3362615343750506.json")>>, <<"path", S("Digital_Agency_Dashboard_Desig3362615343750506.json")>>,
                 <<"type", I(201)>> >>)) >>)

build_report ==
    D(<< <<"config", Str(Dumps(report_config))>>,
         <<"layoutOptimization", I(0)>>,
         <<"resourcePackages", resource_packages>>,
         <<"sections", L(<<build_page1, build_page2>>)>>,
         <<"theme", S("Digital_Agency_Dashboard_Desig3362615343750506.json")>> >>)

-----------------------------------------------------------------------------
(* validate_embedded_json(obj, path), nested in main: the blobs it hands to *)
(* json.loads, in the order of its depth-first walk.  The walk raises at    *)
(* the first blob that does not parse; ValidateStep below takes the blobs   *)
(* one by one.                                                              *)

RECURSIVE validate_walk(_, _), WalkItems(_, _, _), WalkElems(_, _, _)
(* Only the key "config" is looked at; "filters" blobs are walked past. *)
RECURSIVE WalkItemsConfigOnly(_, _, _)
WalkItemsConfigOnly(items, path, i) ==
    IF i > Len(items) THEN << >>
    ELSE LET key == items[i][1]
             val == items[i][2]
         IN  (IF key = "config" /\ val.t = "str"
              THEN <<[path |-> path \o "." \o key, val |-> val.s]>>
              ELSE validate_walk(val, path \o "." \o key))
             \o WalkItemsConfigOnly(items, path, i + 1)

validate_walk(obj, path) ==
    CASE obj.t = "dict" -> WalkItems(obj.items, path, 1)
      [] obj.t = "list" -> WalkElems(obj.xs, path, 1)
      [] OTHER -> << >>

WalkItems(items, path, i) ==
    IF i > Len(items) THEN << >>
    ELSE LET key == items[i][1]
             val == items[i][2]
         IN  (IF key \in {"config", "filters"} /\ val.t = "str"
              THEN <<[path |-> path \o "." \o key, val |-> val.s]>>
              ELSE validate_walk(val, path \o "." \o key))
             \o WalkItems(items, path, i + 1)

WalkElems(xs, path, i) ==
    IF i > Len(xs) THEN << >>
    ELSE validate_walk(xs[i], path \o "[" \o ToString(i - 1) \o "]")
         \o WalkElems(xs, path, i + 1)

-----------------------------------------------------------------------------------------------------------------------------------------------------
(* The config and filters fields of the report, of its pages and of their  *)
(* visual containers, by position in the document.                          *)

SectionsOf(doc) == Get(doc, "sections").xs

VisualsOf(page) == Get(page, "visualContainers").xs

SectionPath(i) == "root.sections[" \o ToString(i - 1) \o "]"

VisualPath(i, j) == SectionPath(i) \o ".visualContainers[" \o ToString(j - 1) \o "]"

BlobsOfVisuals(i, visuals) ==
    [n \in 1..(2 * Len(visuals)) |->
        LET j == (n + 1) \div 2
            key == IF n % 2 = 1 THEN "config" ELSE "filters"
        IN  [path |-> VisualPath(i, j) \o "." \o key, val |-> Get(visuals[j], key)]]

BlobsOfSection(i, page) ==
    << [path |-> SectionPath(i) \o ".config", val |-> Get(page, "config")],
       [path |-> SectionPath(i) \o ".filters", val |-> Get(page, "filters")] >>
    \o BlobsOfVisuals(i, VisualsOf(page))

RECURSIVE BlobsOfSections(_, _)
BlobsOfSections(sections, i) ==
    IF i > Len(sections) THEN << >>
    ELSE BlobsOfSection(i, sections[i]) \o BlobsOfSections(sections, i + 1)

ReportBlobs(doc) ==
    <<[path |-> "root.config", val |-> Get(doc, "config")]>>
    \o BlobsOfSections(SectionsOf(doc), 1)

-----------------------------------------------------------------------------
(* Documents other than the one build_report returns, on which main and its *)
(* validation are run: a report of two pages, each of a few shapes,         *)
(* assembled with the builders above, in which some config or filters blobs *)
(* are cut short (so that they are not JSON), or the last visual container  *)
(* has the name of the first, or a value is not serializable.  NoFault is   *)
(* the program as written: the document is build_report's.                  *)

MaxVisuals == 2

MaxDefects == 2

SetKey(d, key, v) ==
    D([i \in 1..Len(d.items) |-> IF d.items[i][1] = key THEN <<key, v>> ELSE d.items[i]])

Truncated(text) == SubSeq(text, 1, Len(text) - 1)

RECURSIVE CorruptBlobs(_, _, _)
CorruptBlobs(obj, path, bad) ==
    CASE obj.t = "dict" ->
            D([i \in 1..Len(obj.items) |->
                LET key == obj.items[i][1]
                    val == obj.items[i][2]
                    at == path \o "." \o key
                IN  IF key \in {"config", "filters"} /\ val.t = "str"
                    THEN <<key, IF at \in bad THEN Str(Truncated(val.s)) ELSE val>>
                    ELSE <<key, CorruptBlobs(val, at, bad)>>])
      [] obj.t = "list" ->
            L([i \in 1..Len(obj.xs) |->
                CorruptBlobs(obj.xs[i], path \o "[" \o ToString(i - 1) \o "]", bad)])
      [] OTHER -> obj

TestName(f, i, j) ==
    IF f.dup /\ i = 2 /\ j = f.visuals THEN "vc_p1_1"
    ELSE "vc_p" \o ToString(i) \o "_" \o ToString(j)

TestPage(f, i) ==
    D(<< <<"config", Str(Dumps(page_config))>>,
         <<"displayName", S("page " \o ToString(i))>>,
         <<"displayOption", I(1)>>,
         <<"filters", Str(<<P("["), P("]")>>)>>,
         <<"height", F(PAGE_HEIGHT)>>,
         <<"name", S("ReportSection_page" \o ToString(i))>>,
         <<"ordinal", I(i - 1)>>,
         <<"visualContainers",
           L([j \in 1..f.visuals |->
                make_shape(TestName(f, i, j), 20 * j, 80, 10, 780, 0,
                           PAGE_BG, CARD_BORDER_COLOR, 1, BORDER_RADIUS)])>>,
         <<"width", F(PAGE_WIDTH)>> >>)

TestReport(f) ==
    D(<< <<"config", Str(Dumps(report_config))>>,
         <<"layoutOptimization", IF f.unser THEN PyObject ELSE I(0)>>,
         <<"resourcePackages", resource_packages>>,
         <<"sections", L(<<TestPage(f, 1), TestPage(f, 2)>>)>>,
         <<"theme", S("Digital_Agency_Dashboard_Desig3362615343750506.json")>> >>)

NoFault == [visuals |-> 0, bad |-> {}, dup |-> FALSE, unser |-> FALSE]

Built(f) ==
    IF f = NoFault THEN build_report
    ELSE CorruptBlobs(TestReport(f), "root", f.bad)

TestPaths(n) ==
    LET blobs == ReportBlobs(TestReport([visuals |-> n, bad |-> {}, dup |-> FALSE, unser |-> FALSE]))
    IN  {blobs[m].path : m \in 1..Len(blobs)}

Faults ==
    {[visuals |-> MaxVisuals, bad |-> b, dup |-> d, unser |-> FALSE] :
        b \in {x \in SUBSET TestPaths(MaxVisuals) : Cardinality(x) <= MaxDefects},
        d \in BOOLEAN}
    \cup {[visuals |-> MaxVisuals, bad |-> {}, dup |-> FALSE, unser |-> TRUE]}

(* The documents main is run on: with more than one defect, the ones in     *)
(* which no name is repeated.                                               *)
Inputs == {f \in Faults : f.dup => Cardinality(f.bad) <= 1}

-----
(* MAIN *)

(* No builder called on its own: main is what runs. *)
NoArgs == [fn |-> "main"]

NoErr == [type |-> "", at |-> ""]

NoFile == [exists |-> FALSE, content |-> << >>]

OldFile == [exists |-> TRUE, content |-> <<Ch("(previous report.json)")>>]

InitFs ==
    /\ dir_exists \in BOOLEAN
    /\ file \in {NoFile, OldFile}
    /\ file.exists => dir_exists
    /\ Cardinality(fault.bad) > 1 => ~dir_exists
    /\ fs0 = [dir |-> dir_exists, file |-> file]

InitMain ==
    /\ pc = "build_report"
    /\ report = None
    /\ json_str = << >>
    /\ validated = None
    /\ vpos = 0
    /\ err = NoErr
    /\ io_log = << >>
    /\ stdout = << >>
    /\ args = NoArgs
    /\ made = None
    /\ InitFs

Init == fault = NoFault /\ InitMain

InitFaults == fault \in Inputs /\ InitMain

Raise(type, at) ==
    /\ pc' = "raised"
    /\ err' = [type |-> type, at |-> at]

(* report = build_report() *)
CallBuildReport ==
    /\ pc = "build_report"
    /\ report' = Built(fault)
    /\ pc' = "dumps"
    /\ UNCHANGED <<fault, json_str, validated, vpos, err, dir_exists, file, fs0, io_log, stdout,
                 args, made>>

(* json_str = json.dumps(report, ensure_ascii=False, indent=2) *)
JsonDumps ==
    /\ pc = "dumps"
    /\ IF Serializable(report)
       THEN json_str' = Dumps(report) /\ pc' = "loads" /\ err' = err
       ELSE Raise("TypeError", "") /\ json_str' = json_str
    /\ UNCHANGED <<fault, report, validated, vpos, dir_exists, file, fs0, io_log, stdout,
                 args, made>>

(* The validation of the embedded blobs left out. *)
JsonLoadsSkipValidate ==
    /\ pc = "loads"
    /\ LET r == Loads(json_str) IN
       IF r.ok
       THEN validated' = r.v /\ pc' = "makedirs" /\ err' = err
       ELSE Raise("JSONDecodeError", "") /\ validated' = validated
    /\ UNCHANGED <<fault, report, json_str, vpos, dir_exists, file, fs0, io_log, stdout,
                 args, made>>

(* validated = json.loads(json_str) *)
JsonLoads ==
    /\ pc = "loads"
    /\ LET r == Loads(json_str) IN
       IF r.ok
       THEN validated' = r.v /\ pc' = "validate" /\ err' = err
       ELSE Raise("JSONDecodeError", "") /\ validated' = validated
    /\ UNCHANGED <<fault, report, json_str, vpos, dir_exists, file, fs0, io_log, stdout,
                 args, made>>

(* A blob that does not parse is passed over (except: pass). *)
ValidateStepSwallow ==
    /\ pc = "validate"
    /\ vpos < Len(validate_walk(validated, "root"))
    /\ vpos' = vpos + 1
    /\ UNCHANGED <<pc, err, fault, report, json_str, validated, dir_exists, file, fs0, io_log, stdout,
                 args, made>>

(* json.loads applied to the key instead of the value. *)
ValidateStepLoadsKey ==
    /\ pc = "validate"
    /\ LET todo == validate_walk(validated, "root") IN
       /\ vpos < Len(todo)
       /\ IF Loads(S("config").s).ok
          THEN vpos' = vpos + 1 /\ pc' = pc /\ err' = err
          ELSE Raise("ValueError", todo[vpos + 1].path) /\ vpos' = vpos
    /\ UNCHANGED <<fault, report, json_str, validated, dir_exists, file, fs0, io_log, stdout,
                 args, made>>

(* The report's own config replaced, once it has parsed, by the document it *)
(* parses to.                                                               *)
ValidateStepInPlace ==
    /\ pc = "validate"
    /\ LET todo == validate_walk(validated, "root") IN
       /\ vpos < Len(todo)
       /\ IF Loads(todo[vpos + 1].val).ok
          THEN /\ vpos' = vpos + 1 /\ pc' = pc /\ err' = err
               /\ report' = IF vpos = 0
                             THEN SetKey(report, "config", Loads(todo[1].val).v)
                             ELSE report
          ELSE Raise("ValueError", todo[vpos + 1].path) /\ vpos' = vpos /\ report' = report
    /\ UNCHANGED <<fault, json_str, validated, dir_exists, file, fs0, io_log, stdout,
                   args, made>>

(* validate_embedded_json(validated): the next config/filters blob *)
ValidateStep ==
    /\ pc = "validate"
    /\ LET todo == validate_walk(validated, "root") IN
       /\ vpos < Len(todo)
       /\ IF Loads(todo[vpos + 1].val).ok
          THEN vpos' = vpos + 1 /\ pc' = pc /\ err' = err
          ELSE Raise("ValueError", todo[vpos + 1].path) /\ vpos' = vpos
    /\ UNCHANGED <<fault, report, json_str, validated, dir_exists, file, fs0, io_log, stdout,
                 args, made>>

(* validate_embedded_json(validated) returns *)
ValidateReturn ==
    /\ pc = "validate"
    /\ vpos = Len(validate_walk(validated, "root"))
    /\ pc' = "makedirs"
    /\ UNCHANGED <<fault, report, json_str, validated, vpos, err, dir_exists, file, fs0, io_log, stdout,
                 args, made>>

(* The directory made without waiting for the validation to return. *)
MakeDirsEarly ==
    /\ pc \in {"validate", "makedirs"}
    /\ io_log' = Append(io_log, "makedirs")
    /\ \E ok \in BOOLEAN :
          IF dir_exists \/ ok
          THEN dir_exists' = TRUE /\ pc' = "open" /\ err' = err
          ELSE Raise("OSError", "makedirs") /\ dir_exists' = dir_exists
    /\ UNCHANGED <<fault, report, json_str, validated, vpos, file, fs0, stdout,
                 args, made>>

(* os.makedirs(os.path.dirname(output_path), exist_ok=True) *)
MakeDirs ==
    /\ pc = "makedirs"
    /\ io_log' = Append(io_log, "makedirs")
    /\ \E ok \in BOOLEAN :
          IF dir_exists \/ ok
          THEN dir_exists' = TRUE /\ pc' = "open" /\ err' = err
          ELSE Raise("OSError", "makedirs") /\ dir_exists' = dir_exists
    /\ UNCHANGED <<fault, report, json_str, validated, vpos, file, fs0, stdout,
                 args, made>>

(* with open(output_path, "w", encoding="utf-8") as f *)
OpenFile ==
    /\ pc = "open"
    /\ io_log' = Append(io_log, "open")
    /\ \E ok \in BOOLEAN :
          IF ok
          THEN file' = [exists |-> TRUE, content |-> << >>] /\ pc' = "write" /\ err' = err
          ELSE Raise("OSError", "open") /\ file' = file
    /\ UNCHANGED <<fault, report, json_str, validated, vpos, dir_exists, fs0, stdout,
                 args, made>>

(* f.write(json_str), and the file is closed; a write the system refuses   *)
(* leaves the file cut short                                                *)
WriteFile ==
    /\ pc = "write"
    /\ io_log' = Append(io_log, "write")
    /\ \E ok \in BOOLEAN :
          IF ok
          THEN file' = [exists |-> TRUE, content |-> json_str] /\ pc' = "print" /\ err' = err
          ELSE /\ Raise("OSError", "write")
               /\ file' = [exists |-> TRUE,
                           content |-> SubSeq(json_str, 1, Len(json_str) \div 2)]
    /\ UNCHANGED <<fault, report, json_str, validated, vpos, dir_exists, fs0, stdout,
                 args, made>>

(* Summary statistics *)
PrintSummary ==
    /\ pc = "print"
    /\ LET sections == Get(report, "sections").xs IN
       stdout' = <<Len(sections),
                   Len(Get(sections[1], "visualContainers").xs),
                   Len(Get(sections[2], "visualContainers").xs),
                   Len(json_str)>>
    /\ pc' = "done"
    /\ UNCHANGED <<fault, report, json_str, validated, vpos, err, dir_exists, file, fs0, io_log,
                 args, made>>

Next ==
    \/ CallBuildReport
    \/ JsonDumps
    \/ JsonLoads
    \/ ValidateStep
    \/ ValidateReturn
    \/ MakeDirs
    \/ OpenFile
    \/ WriteFile
    \/ PrintSummary

Spec == Init /\ [][Next]_vars

SpecFaults == InitFaults /\ [][Next]_vars

-----------------------------------------------------------------------------
(* A builder called on its own, outside build_page1 and build_page2: args   *)
(* is the call (the builder and its arguments, as in Call), made the        *)
(* visual container it returns.                                             *)

Names == {"vc_p1_kpi_total", "vc_p2_donut", "v"}

Rects ==
    {[x |-> 240, y |-> 510, w |-> 130, h |-> 55],
     [x |-> 100, y |-> 180, w |-> 280, h |-> 280],
     [x |-> 0, y |-> 0, w |-> 1, h |-> 1]}

Zs == {0, 1}

MeasureNames ==
    {"JichitaiSu", "KosodateKaigo26TetsuzukiKanryoJichitaiSu", "Kanryo Ritsu (%)", ""}

FontSizes == {28, 36}

CardArgs ==
    {Call("make_card", n, r.x, r.y, r.w, r.h, z, m, fs) :
        n \in Names, r \in Rects, z \in Zs, m \in MeasureNames, fs \in FontSizes}

DonutArgs ==
    {Call("make_donut", n, r.x, r.y, r.w, r.h, z, None, fs) :
        n \in Names, r \in Rects, z \in Zs, fs \in FontSizes}

InitBuilders ==
    /\ args \in CardArgs \cup DonutArgs
    /\ made = None
    /\ pc = "builder"
    /\ fault = NoFault
    /\ report = None
    /\ json_str = << >>
    /\ validated = None
    /\ vpos = 0
    /\ err = NoErr
    /\ io_log = << >>
    /\ stdout = << >>
    /\ dir_exists = FALSE
    /\ file = NoFile
    /\ fs0 = [dir |-> FALSE, file |-> NoFile]

(* make_card(name, x, y, w, h, z, measure_name, font_size) *)
CallMakeCard ==
    /\ pc = "builder"
    /\ args.fn = "make_card"
    /\ made' = make_card(args.name, args.x, args.y, args.w, args.h, args.z,
                         args.a, args.b, None)
    /\ pc' = "returned"
    /\ UNCHANGED <<fault, report, json_str, validated, vpos, err, dir_exists, file, fs0,
                   io_log, stdout, args>>

(* make_donut(name, x, y, w, h, z, label_font_size) *)
CallMakeDonut ==
    /\ pc = "builder"
    /\ args.fn = "make_donut"
    /\ made' = make_donut(args.name, args.x, args.y, args.w, args.h, args.z, args.b, None)
    /\ pc' = "returned"
    /\ UNCHANGED <<fault, report, json_str, validated, vpos, err, dir_exists, file, fs0,
                   io_log, stdout, args>>

NextBuilders ==
    \/ CallMakeCard
    \/ CallMakeDonut

SpecBuilders == InitBuilders /\ [][NextBuilders]_vars

-----------------------------------------------------------------------------
(* Reading the document *)

VisualIds(doc) ==
    UNION {{<<i, j>> : j \in 1..Len(VisualsOf(SectionsOf(doc)[i]))} :
             i \in 1..Len(SectionsOf(doc))}

Visual(doc, id) == VisualsOf(SectionsOf(doc)[id[1]])[id[2]]

ParsedConfig(doc, id) == Loads(Get(Visual(doc, id), "config").s)

ConfigOf(doc, id) == ParsedConfig(doc, id).v

NameOf(doc, id) == Get(ConfigOf(doc, id), "name")

HasQuery(cfg) ==
    HasKey(cfg, "singleVisual") /\ HasKey(Get(cfg, "singleVisual"), "prototypeQuery")

QueryOf(cfg) == Get(Get(cfg, "singleVisual"), "prototypeQuery")

HasProjections(cfg) ==
    HasKey(cfg, "singleVisual") /\ HasKey(Get(cfg, "singleVisual"), "projections")

ProjectionsOf(cfg) == Get(Get(cfg, "singleVisual"), "projections")

DefectPaths(doc) ==
    {ReportBlobs(doc)[n].path : n \in {m \in 1..Len(ReportBlobs(doc)) :
        LET b == ReportBlobs(doc)[m].val IN b.t = "str" /\ ~Loads(b.s).ok}}

ValidationReturned == pc \in {"makedirs", "open", "write", "print", "done"}

ValidationRaised == pc = "raised" /\ err.type = "ValueError"

(* build_report has just returned: report is its result and no later      *)
(* statement of main has run.                                              *)
BuildReturned == pc = "dumps" /\ report # None

RaisedBeforeIo == pc = "raised" /\ err.type \in {"TypeError", "JSONDecodeError", "ValueError"}

-----------------------------------------------------------------------------
(* C1: the directory is made and the file opened only after the validation  *)
(* of every embedded blob has returned without error; a run in which the    *)
(* serialization, the re-parse or the validation raises ends with no I/O    *)
(* done, the directory and the file as they were; and a run that has        *)
(* reached its end has written the whole serialization.                     *)
C1_IoOnlyAfterValidation ==
    /\ (io_log # << >> \/ dir_exists # fs0.dir \/ file # fs0.file) =>
          /\ validated # None
          /\ vpos = Len(validate_walk(validated, "root"))
          /\ DefectPaths(validated) = {}
          /\ ~RaisedBeforeIo
    /\ RaisedBeforeIo =>
          io_log = << >> /\ dir_exists = fs0.dir /\ file = fs0.file
    /\ pc = "done" =>
          (json_str = Dumps(report) /\ file = [exists |-> TRUE, content |-> json_str])

C1_Witness ==
    /\ ValidationRaised
    /\ ~fs0.dir /\ ~dir_exists /\ ~file.exists
    /\ io_log = << >>

(* C2: in the built document every visual container's config parses to a   *)
(* document with a non-empty name, and no two containers of the document,   *)
(* on whichever page, have the same name.                                   *)
C2_NamesUnique ==
    BuildReturned =>
        LET names == {<<id, ParsedConfig(report, id)>> : id \in VisualIds(report)} IN
        /\ \A e \in names :
              /\ e[2].ok
              /\ HasKey(e[2].v, "name")
              /\ Get(e[2].v, "name").t = "str"
              /\ Get(e[2].v, "name").s # << >>
        /\ Cardinality({Get(e[2].v, "name") : e \in names}) = Cardinality(VisualIds(report))

C2_Witness ==
    /\ BuildReturned
    /\ \E a, b \in VisualIds(report) : a[1] = 1 /\ b[1] = 2
    /\ Cardinality({NameOf(report, id) : id \in VisualIds(report)}) = 26

(* C3: every visual whose config has a prototypeQuery has Version 2, From   *)
(* and Select present and non-empty, exactly one From entry, and Type 0 in  *)
(* every From entry.                                                        *)
C3_QueryShape ==
    BuildReturned =>
        \A id \in VisualIds(report) :
            LET cfg == ConfigOf(report, id) IN
            HasQuery(cfg) =>
                LET q == QueryOf(cfg) IN
                /\ HasKey(q, "Version") /\ Get(q, "Version") = I(2)
                /\ HasKey(q, "From") /\ HasKey(q, "Select")
                /\ Get(q, "From").t = "list" /\ Get(q, "Select").t = "list"
                /\ Len(Get(q, "From").xs) = 1
                /\ Len(Get(q, "Select").xs) >= 1
                /\ \A n \in 1..Len(Get(q, "From").xs) :
                      Get(Get(q, "From").xs[n], "Type") = I(0)

C3_Witness ==
    /\ BuildReturned
    /\ Cardinality({id \in VisualIds(report) : HasQuery(ConfigOf(report, id))}) = 10
    /\ \E id \in VisualIds(report) :
          Get(Get(ConfigOf(report, id), "singleVisual"), "visualType") = S("pivotTable")

(* C4: in every visual with projections, each queryRef of each role is the  *)
(* Name of a Select entry of the same visual's query; each Select entry's   *)
(* Name is its source alias, a dot and its Property; and that alias is a    *)
(* Name of the query's From clause.                                         *)
SelectBody(e) == IF HasKey(e, "Column") THEN Get(e, "Column") ELSE Get(e, "Measure")

SelectAlias(e) == Get(Get(Get(SelectBody(e), "Expression"), "SourceRef"), "Source")

C4_QueryRefsResolve ==
    BuildReturned =>
        \A id \in VisualIds(report) :
            LET cfg == ConfigOf(report, id) IN
            HasProjections(cfg) =>
                LET roles == ProjectionsOf(cfg).items
                    sel == Get(QueryOf(cfg), "Select").xs
                    from == Get(QueryOf(cfg), "From").xs
                IN  /\ HasQuery(cfg)
                    /\ \A r \in 1..Len(roles) : \A n \in 1..Len(roles[r][2].xs) :
                          \E m \in 1..Len(sel) :
                              Get(sel[m], "Name") = Get(roles[r][2].xs[n], "queryRef")
                    /\ \A m \in 1..Len(sel) :
                          /\ IsPlain(SelectAlias(sel[m]))
                          /\ IsPlain(Get(SelectBody(sel[m]), "Property"))
                          /\ Get(sel[m], "Name") =
                                S(PlainOf(SelectAlias(sel[m])) \o "."
                                  \o PlainOf(Get(SelectBody(sel[m]), "Property")))
                          /\ \E f \in 1..Len(from) :
                                Get(from[f], "Name") = SelectAlias(sel[m])

C4_Witness ==
    /\ BuildReturned
    /\ Cardinality({id \in VisualIds(report) : HasProjections(ConfigOf(report, id))}) = 10
    /\ \E id \in VisualIds(report) :
          /\ HasProjections(ConfigOf(report, id))
          /\ Len(ProjectionsOf(ConfigOf(report, id)).items) = 3

(* C5: the re-parse of the serialized report is the report build_report    *)
(* returned (same fields, same order, same numbers, same strings), the      *)
(* serialization and the re-parse do not raise, and every config and        *)
(* filters blob of the report, of its pages and of their visual containers  *)
(* parses back to the dict or list it was serialized from.                  *)
PageCalls(i) == IF i = 1 THEN page1_calls ELSE page2_calls

PageFiltersSource(i) == IF i = 1 THEN L(<< >>) ELSE page_filters

ParsesTo(blob, source) == blob.t = "str" /\ Loads(blob.s) = [ok |-> TRUE, v |-> source]

C5_RoundTrip ==
    /\ validated # None => validated = report
    /\ pc = "raised" => err.type = "OSError"
    /\ BuildReturned =>
          /\ ParsesTo(Get(report, "config"), report_config)
          /\ \A i \in 1..Len(SectionsOf(report)) :
                LET page == SectionsOf(report)[i] IN
                /\ ParsesTo(Get(page, "config"), page_config)
                /\ ParsesTo(Get(page, "filters"), PageFiltersSource(i))
                /\ Len(VisualsOf(page)) = Len(PageCalls(i))
                /\ \A j \in 1..Len(VisualsOf(page)) :
                      /\ ParsesTo(Get(VisualsOf(page)[j], "config"), ConfigOfCall(PageCalls(i)[j]))
                      /\ ParsesTo(Get(VisualsOf(page)[j], "filters"), L(<< >>))

C5_Witness ==
    /\ pc = "validate"
    /\ validated # None
    /\ validated = report
    /\ Len(json_str) > 0

ParsedNames(doc) ==
    {<<id, Get(ParsedConfig(doc, id).v, "name")>> :
        id \in {i \in VisualIds(doc) :
                  ParsedConfig(doc, i).ok /\ HasKey(ParsedConfig(doc, i).v, "name")}}

HasDuplicateNames(doc) ==
    \E a, b \in ParsedNames(doc) : a[1] # b[1] /\ a[2] = b[2]

C9_EveryBlobExamined ==
    /\ ValidationReturned => fault.bad = {}
    /\ ValidationRaised => err.at \in fault.bad
    /\ (pc = "raised" /\ fault.bad # {}) => ValidationRaised

C9_Witness ==
    /\ ValidationRaised
    /\ err.at = "root.sections[1].visualContainers[1].filters"

(* C10 (as amended): the order is construct, serialize, re-parse, validate  *)
(* the re-parsed copy, write.  The text exists before the validation        *)
(* starts; no I/O happens before the validation has walked the whole        *)
(* document; the text written is the text serialized.                       *)
C10_Order ==
    /\ json_str # << >> => report # None
    /\ validated # None => json_str # << >>
    /\ pc = "validate" => (json_str # << >> /\ validated # None)
    /\ vpos > 0 => validated # None
    /\ io_log # << >> =>
          (validated # None /\ vpos = Len(validate_walk(validated, "root")))
    /\ file # fs0.file => (Len(io_log) >= 2 /\ io_log[2] = "open")
    /\ pc \in {"print", "done"} => (io_log = <<"makedirs", "open", "write">> /\ file.content = json_str)

C10_Witness ==
    /\ pc = "validate"
    /\ vpos > 0
    /\ json_str # << >>
    /\ io_log = << >>

(* C10 as stated: the document is serialized only after its validation has  *)
(* passed.                                                                  *)
C10_SerializedAfterValidation ==
    json_str # << >> => (ValidationReturned \/ (pc = "raised" /\ err.type = "OSError"))

(* C11: for every name, position and measure name m, the container          *)
(* make_card returns has a config that parses to a card whose query has     *)
(* exactly one Select entry, a Measure of Property m named "o." m, and      *)
(* whose Values projection is exactly one queryRef, that same name.         *)
MadeConfig == Loads(Get(made, "config").s)

C11_CardOfMeasure ==
    (pc = "returned" /\ args.fn = "make_card") =>
        /\ MadeConfig.ok
        /\ LET sv == Get(MadeConfig.v, "singleVisual")
               sel == Get(Get(sv, "prototypeQuery"), "Select")
               proj == Get(sv, "projections")
           IN  /\ Get(sv, "visualType") = S("card")
               /\ sel.t = "list" /\ Len(sel.xs) = 1
               /\ HasKey(sel.xs[1], "Measure") /\ ~HasKey(sel.xs[1], "Column")
               /\ Get(Get(sel.xs[1], "Measure"), "Property") = S(args.a)
               /\ Get(sel.xs[1], "Name") = S("o." \o args.a)
               /\ Len(proj.items) = 1 /\ HasKey(proj, "Values")
               /\ Get(proj, "Values") = L(<<D(<< <<"queryRef", S("o." \o args.a)>> >>)>>)

C11_Witness ==
    /\ pc = "returned"
    /\ args.fn = "make_card"
    /\ args.a = "JichitaiSu"
    /\ args.name = "v"
    /\ Get(Get(Get(Get(MadeConfig.v, "singleVisual"), "prototypeQuery"), "Select").xs[1], "Name")
          = S("o.JichitaiSu")

(* C17: a donut chart make_donut returns has exactly two data-point colour  *)
(* overrides, each a comparison of kind 0 of column Sutetasu of entity      *)
(* KanryoJokyo with a quoted literal: 'Kanryo' filled with the completed    *)
(* colour, 'Mikanryo' with the gray; and that entity is the one the query   *)
(* of the donut names in its From clause.                                   *)
DataPoints(cfg) == Get(Get(Get(cfg, "singleVisual"), "objects"), "dataPoint")

ComparisonOf(dp) == Get(Get(Get(dp, "selector"), "data").xs[1], "scopeId")

IsOverride(dp, value, color) ==
    /\ Get(dp, "properties") = D(<< <<"fill", solid_color(color)>> >>)
    /\ Len(Get(Get(dp, "selector"), "data").xs) = 1
    /\ Len(ComparisonOf(dp).items) = 1
    /\ LET cmp == Get(ComparisonOf(dp), "Comparison") IN
       /\ Get(cmp, "ComparisonKind") = I(0)
       /\ Get(cmp, "Left") =
             D(<< <<"Column", D(<<
                 <<"Expression", D(<< <<"SourceRef", D(<< <<"Entity", S("KanryoJokyo")>> >>)>> >>)>>,
                 <<"Property", S("Sutetasu")>> >>)>> >>)
       /\ Get(cmp, "Right") = D(<< <<"Literal", D(<< <<"Value", S("'" \o value \o "'")>> >>)>> >>)

C17_DonutOverrides ==
    (pc = "returned" /\ args.fn = "make_donut") =>
        /\ MadeConfig.ok
        /\ LET dps == DataPoints(MadeConfig.v)
               from == Get(Get(Get(MadeConfig.v, "singleVisual"), "prototypeQuery"), "From")
           IN  /\ dps.t = "list" /\ Len(dps.xs) = 2
               /\ IsOverride(dps.xs[1], "Kanryo", COMPLETED_COLOR)
               /\ IsOverride(dps.xs[2], "Mikanryo", INCOMPLETE_GRAY)
               /\ Len(from.xs) = 1
               /\ Get(from.xs[1], "Entity") = S("KanryoJokyo")

C17_Witness ==
    /\ pc = "returned"
    /\ args.fn = "make_donut"
    /\ args.name = "vc_p2_donut"
    /\ Len(DataPoints(MadeConfig.v).xs) = 2

(* C12: the filters blob of the second page parses to a list of exactly one *)
(* filter, of type Categorical, whose Where clause is one In condition over *)
(* the one column SabuKategori with exactly the two literal values          *)
(* 'A.KosodateKankei' and 'I.KaigoKankei'; the filters blob of the first    *)
(* page parses to the empty list.                                           *)
PageFilters(i) == Loads(Get(SectionsOf(report)[i], "filters").s)

LiteralRow(value) == L(<<D(<< <<"Literal", D(<< <<"Value", S(value)>> >>)>> >>)>>)

C12_PageFilterIn ==
    BuildReturned =>
        /\ Len(SectionsOf(report)) = 2
        /\ PageFilters(1) = [ok |-> TRUE, v |-> L(<< >>)]
        /\ PageFilters(2).ok
        /\ PageFilters(2).v.t = "list"
        /\ Len(PageFilters(2).v.xs) = 1
        /\ LET flt == PageFilters(2).v.xs[1]
               where == Get(Get(flt, "filter"), "Where")
           IN  /\ Get(flt, "type") = S("Categorical")
               /\ where.t = "list" /\ Len(where.xs) = 1
               /\ Len(where.xs[1].items) = 1
               /\ Len(Get(where.xs[1], "Condition").items) = 1
               /\ LET in == Get(Get(where.xs[1], "Condition"), "In") IN
                  /\ Len(Get(in, "Expressions").xs) = 1
                  /\ Get(Get(Get(in, "Expressions").xs[1], "Column"), "Property")
                        = S("SabuKategori")
                  /\ Get(in, "Values") =
                        L(<<LiteralRow("'A.KosodateKankei'"), LiteralRow("'I.KaigoKankei'")>>)

C12_Witness ==
    /\ BuildReturned
    /\ PageFilters(2).ok
    /\ Len(PageFilters(2).v.xs) = 1
    /\ Get(PageFilters(2).v.xs[1], "name") = S("filter_subcat")

(* C13: the filters blob of every visual container of the built document    *)
(* parses to the empty list, whichever builder made the container.          *)
VisualTypeOf(doc, id) == Get(Get(ConfigOf(doc, id), "singleVisual"), "visualType")

C13_VisualFiltersEmpty ==
    BuildReturned =>
        \A id \in VisualIds(report) :
            /\ Get(Visual(report, id), "filters").t = "str"
            /\ Loads(Get(Visual(report, id), "filters").s) = [ok |-> TRUE, v |-> L(<< >>)]

C13_Witness ==
    /\ BuildReturned
    /\ {VisualTypeOf(report, id) : id \in VisualIds(report)} =
          {S("textbox"), S("card"), S("shape"), S("donutChart"), S("slicer"),
           S("pivotTable"), S("actionButton")}

(* C14 as stated: on each page of the built document no two distinct visual *)
(* containers have rectangles [x, x+width) x [y, y+height) that intersect.  *)
Rect(v) ==
    [x |-> Get(v, "x").n, y |-> Get(v, "y").n,
     w |-> Get(v, "width").n, h |-> Get(v, "height").n]

Overlap(a, b) ==
    /\ a.x < b.x + b.w /\ b.x < a.x + a.w
    /\ a.y < b.y + b.h /\ b.y < a.y + a.h

C14_NoOverlap ==
    BuildReturned =>
        \A a, b \in VisualIds(report) :
            (a[1] = b[1] /\ a[2] # b[2]) =>
                ~Overlap(Rect(Visual(report, a)), Rect(Visual(report, b)))

(* C15: every visual container of the built document lies within its page: *)
(* x and y are not negative, width and height are positive, x + width is at *)
(* most the page's width and y + height at most its height, and the page's  *)
(* width and height are 1920 and 1080.                                      *)
C15_WithinPage ==
    BuildReturned =>
        \A i \in 1..Len(SectionsOf(report)) :
            LET page == SectionsOf(report)[i] IN
            /\ Get(page, "width") = F(1920)
            /\ Get(page, "height") = F(1080)
            /\ \A j \in 1..Len(VisualsOf(page)) :
                  LET r == Rect(VisualsOf(page)[j]) IN
                  /\ r.x >= 0 /\ r.y >= 0 /\ r.w > 0 /\ r.h > 0
                  /\ r.x + r.w <= Get(page, "width").n
                  /\ r.y + r.h <= Get(page, "height").n

C15_Witness ==
    /\ BuildReturned
    /\ \E id \in VisualIds(report) :
          /\ Rect(Visual(report, id)) = [x |-> 360, y |-> 20, w |-> 1540, h |-> 1000]
          /\ VisualTypeOf(report, id) = S("pivotTable")

(* C18: the x, y, width, height and z of every visual container of the      *)
(* built document are those of layouts[0].position in its own config, for   *)
(* the containers of the builders and for the pivot tables and the back     *)
(* button, whose configs are written out in the page builders.              *)
InnerPosition(doc, id) == Get(Get(ConfigOf(doc, id), "layouts").xs[1], "position")

C18_OuterIsInnerPosition ==
    BuildReturned =>
        \A id \in VisualIds(report) :
            LET v == Visual(report, id)
                pos == InnerPosition(report, id)
            IN  /\ Len(Get(ConfigOf(report, id), "layouts").xs) = 1
                /\ \A k \in {"x", "y", "z", "width", "height"} :
                      /\ Get(v, k).t = "float"
                      /\ Get(pos, k).t = "int"
                      /\ Get(v, k).n = Get(pos, k).n

C18_Witness ==
    /\ BuildReturned
    /\ \E id \in VisualIds(report) :
          /\ VisualTypeOf(report, id) = S("actionButton")
          /\ Get(InnerPosition(report, id), "width") = I(240)
          /\ Get(Visual(report, id), "width") = F(240)
    /\ \E id \in VisualIds(report) :
          /\ VisualTypeOf(report, id) = S("pivotTable")
          /\ Get(InnerPosition(report, id), "z") = I(0)

(* C19: the references inside the built document resolve.  The destination  *)
(* of the back button of page 2 is the name of a page of sections; the page *)
(* names are pairwise distinct and the ordinal of each page is its index in *)
(* sections; activeSectionIndex is an index of sections; the top-level      *)
(* theme is the customTheme name of the report config and the name of an    *)
(* item of a resource package, as the baseTheme name is.                    *)
ReportConfig == Loads(Get(report, "config").s).v

ThemeName(kind) == Get(Get(Get(ReportConfig, "themeCollection"), kind), "name")

ResourceItemNames ==
    UNION {{Get(it, "name") : it \in
              {Get(Get(pkg, "resourcePackage"), "items").xs[n] :
                 n \in 1..Len(Get(Get(pkg, "resourcePackage"), "items").xs)}} :
           pkg \in {Get(report, "resourcePackages").xs[k] :
                      k \in 1..Len(Get(report, "resourcePackages").xs)}}

BackButtons == {id \in VisualIds(report) : VisualTypeOf(report, id) = S("actionButton")}

DestinationOf(id) ==
    Get(Get(Get(Get(Get(Get(Get(Get(ConfigOf(report, id), "singleVisual"), "objects"),
        "action").xs[1], "properties"), "destination"), "expr"), "Literal"), "Value")

PageNames == {Get(SectionsOf(report)[i], "name") : i \in 1..Len(SectionsOf(report))}

C19_ReferencesResolve ==
    BuildReturned =>
        /\ \A id \in BackButtons :
              \E n \in PageNames : DestinationOf(id) = S("'" \o PlainOf(n) \o "'")
        /\ Cardinality(PageNames) = Len(SectionsOf(report))
        /\ \A i \in 1..Len(SectionsOf(report)) :
              Get(SectionsOf(report)[i], "ordinal") = I(i - 1)
        /\ Get(ReportConfig, "activeSectionIndex").t = "int"
        /\ Get(ReportConfig, "activeSectionIndex").n \in 0..(Len(SectionsOf(report)) - 1)
        /\ Get(report, "theme") = ThemeName("customTheme")
        /\ Get(report, "theme") \in ResourceItemNames
        /\ ThemeName("baseTheme") \in ResourceItemNames

C19_Witness ==
    /\ BuildReturned
    /\ \E id \in BackButtons : id[1] = 2 /\ DestinationOf(id) = S("'ReportSection_page1'")
    /\ Get(SectionsOf(report)[1], "name") = S("ReportSection_page1")
    /\ Get(report, "theme") = S("Digital_Agency_Dashboard_Desig3362615343750506.json")

(* C16: a visual container is made once and is of one page: no container    *)
(* and no name is in the visualContainers of both pages, nor twice in those *)
(* of one page.  Once build_report has returned, the document is never      *)
(* changed: at every later point of main report is the tree build_report    *)
(* returned, the text is its serialization, and the text written to the     *)
(* file is that text.                                                       *)
PageVisualIds(i) == {id \in VisualIds(report) : id[1] = i}

C16_BuiltOnceThenUnchanged ==
    /\ report # None => report = build_report
    /\ json_str # << >> => json_str = Dumps(build_report)
    /\ pc \in {"print", "done"} => file = [exists |-> TRUE, content |-> Dumps(build_report)]
    /\ BuildReturned =>
          /\ \A a, b \in VisualIds(report) :
                a # b => /\ Visual(report, a) # Visual(report, b)
                         /\ Get(Visual(report, a), "config") # Get(Visual(report, b), "config")
          /\ {NameOf(report, id) : id \in PageVisualIds(1)}
                \cap {NameOf(report, id) : id \in PageVisualIds(2)} = {}

C16_Witness ==
    /\ pc = "validate"
    /\ vpos = 2
    /\ report = build_report
    /\ json_str = Dumps(report)
    /\ PageVisualIds(1) # {} /\ PageVisualIds(2) # {}

====
